---- MODULE Spec2Model ----
(***************************************************************************)
(* Model of the typed_permissions crate: permission expressions built from *)
(* derived atoms with And / Or, the Dispatch trait (dispatch, check_match, *)
(* try_into_token) and PhantomToken::new_unchecked.                        *)
(*                                                                         *)
(* A type E implementing Dispatch<Z> is a value of Exprs.  Trait method    *)
(* resolution is modelled by the operators dispatch, check_match and       *)
(* try_into_token, which select the impl the compiler selects for E.       *)
(***************************************************************************)
EXTENDS Integers, FiniteSets, Sequences, TLC

\* The variants of the enum that derives Permissions (type Z).
Atoms == {"CanRead", "CanWrite", "CanDelete"}

\* Largest number of atom leaves of a permission type.
MaxLeaves == 3

\* struct generated per enum variant by #[derive(Permissions)]
Atom(a) == [kind |-> "Atom", a |-> a]
\* pub struct And<Z, T, U>
And(T, U) == [kind |-> "And", l |-> T, r |-> U]
\* pub struct Or<Z, T, U>
Or(T, U) == [kind |-> "Or", l |-> T, r |-> U]

RECURSIVE ExprsWithLeaves(_)
ExprsWithLeaves(k) ==
    IF k = 1
    THEN {Atom(a) : a \in Atoms}
    ELSE UNION {UNION {{And(T, U), Or(T, U)} :
                          T \in ExprsWithLeaves(i), U \in ExprsWithLeaves(k - i)} :
                   i \in 1..(k - 1)}

\* Every type implementing Dispatch<Z> with at most MaxLeaves leaves.
Exprs == UNION {ExprsWithLeaves(k) : k \in 1..MaxLeaves}

\* Option<PhantomToken<E>>
None == [some |-> FALSE]
Some(t) == [some |-> TRUE, val |-> t]

\* PhantomToken::<E>::new_unchecked(): a marker bound to E, no other content.
new_unchecked(E) == [bound |-> E]

RECURSIVE dispatch(_)

\* generated impl Dispatch for the atom struct: a singleton set
Atom_dispatch(a) == {a}

\* Variant of And_dispatch that forgets the right operand.
And_dispatch_left(T, U) == dispatch(T)

\* impl Dispatch for And: T::dispatch().union(&U::dispatch())
And_dispatch(T, U) == dispatch(T) \cup dispatch(U)

\* Variant of Or_dispatch that intersects instead of uniting.
Or_dispatch_intersection(T, U) == dispatch(T) \cap dispatch(U)

\* impl Dispatch for Or: T::dispatch().union(&U::dispatch())
Or_dispatch(T, U) == dispatch(T) \cup dispatch(U)

\* E::dispatch()
dispatch(E) ==
    CASE E.kind = "Atom" -> Atom_dispatch(E.a)
      [] E.kind = "And"  -> And_dispatch(E.l, E.r)
      [] E.kind = "Or"   -> Or_dispatch(E.l, E.r)

\* Variant of default_check_match: any common atom is enough.
default_check_match_any(E, G) == dispatch(E) \cap G # {}

\* Variant of default_check_match: is_subset instead of is_superset.
default_check_match_subset(E, G) == G \subseteq dispatch(E)

\* Variant of default_check_match: set equality instead of is_superset.
default_check_match_eq(E, G) == G = dispatch(E)

\* Dispatch::check_match, provided method: ops.is_superset(&Self::dispatch())
default_check_match(E, G) == dispatch(E) \subseteq G

\* E::check_match(ops): no impl overrides it, so every type uses the default.
check_match(E, G) == default_check_match(E, G)

\* Dispatch::try_into_token, provided method
default_try_into_token(E, G) ==
    IF check_match(E, G) THEN Some(new_unchecked(E)) ELSE None

\* Variant of Or_try_into_token: && instead of ||.
Or_try_into_token_both(E, G) ==
    IF check_match(E.l, G) /\ check_match(E.r, G)
    THEN Some(new_unchecked(E))
    ELSE None

\* impl Dispatch for Or: try_into_token override
Or_try_into_token(E, G) ==
    IF check_match(E.l, G) \/ check_match(E.r, G)
    THEN Some(new_unchecked(E))
    ELSE None

\* E::try_into_token(ops): Or overrides, Atom and And use the default.
try_into_token(E, G) ==
    IF E.kind = "Or" THEN Or_try_into_token(E, G) ELSE default_try_into_token(E, G)

VARIABLES
    expr,     \* the type E the calls are made on
    ops,      \* the granted set the caller holds (argument of the last call taking one)
    op,       \* the last method called
    token,    \* Option<PhantomToken<E>> returned by try_into_token / new_unchecked
    matched,  \* bool returned by check_match
    dset      \* HashSet returned by dispatch

vars == <<expr, ops, op, token, matched, dset>>

Init ==
    /\ expr \in Exprs
    /\ ops \in SUBSET Atoms
    /\ op = "none"
    /\ token = None
    /\ matched = FALSE
    /\ dset = {}

\* let t = E::try_into_token(&G);
TryIntoToken(G) ==
    /\ ops' = G
    /\ op' = "try_into_token"
    /\ token' = try_into_token(expr, G)
    /\ matched' = FALSE
    /\ dset' = {}
    /\ UNCHANGED expr

\* let b = E::check_match(&G);
CheckMatch(G) ==
    /\ ops' = G
    /\ op' = "check_match"
    /\ matched' = check_match(expr, G)
    /\ token' = None
    /\ dset' = {}
    /\ UNCHANGED expr

\* let s = E::dispatch();
Dispatch ==
    /\ op' = "dispatch"
    /\ dset' = dispatch(expr)
    /\ token' = None
    /\ matched' = FALSE
    /\ UNCHANGED <<expr, ops>>

\* Variant of NewUnchecked that consults the granted set the caller holds.
NewUnchecked_checked ==
    /\ op' = "new_unchecked"
    /\ token' = try_into_token(expr, ops)
    /\ matched' = FALSE
    /\ dset' = {}
    /\ UNCHANGED <<expr, ops>>

\* let t = unsafe { PhantomToken::<E>::new_unchecked() };
NewUnchecked ==
    /\ op' = "new_unchecked"
    /\ token' = Some(new_unchecked(expr))
    /\ matched' = FALSE
    /\ dset' = {}
    /\ UNCHANGED <<expr, ops>>

Next ==
    \/ \E G \in SUBSET Atoms : TryIntoToken(G)
    \/ \E G \in SUBSET Atoms : CheckMatch(G)
    \/ Dispatch
    \/ NewUnchecked

Spec == Init /\ [][Next]_vars

TypeOK ==
    /\ expr \in Exprs
    /\ ops \subseteq Atoms
    /\ op \in {"none", "try_into_token", "check_match", "dispatch", "new_unchecked"}
    /\ token \in {None, Some(new_unchecked(expr))}
    /\ matched \in BOOLEAN
    /\ dset \subseteq Atoms
(***************************************************************************)
(* Reference notions used by the properties.                               *)
(***************************************************************************)

\* match(E, G) of the specification: superset of dispatch for Atom and And,
\* match(l, G) or match(r, G) for Or.
RECURSIVE SpecMatch(_, _)
SpecMatch(E, G) ==
    IF E.kind = "Or"
    THEN SpecMatch(E.l, G) \/ SpecMatch(E.r, G)
    ELSE dispatch(E) \subseteq G

\* a occurs as a leaf of E
RECURSIVE OccursIn(_, _)
OccursIn(a, E) ==
    IF E.kind = "Atom" THEN E.a = a ELSE OccursIn(a, E.l) \/ OccursIn(a, E.r)

LeafSet(E) == {a \in Atoms : OccursIn(a, E)}

\* E with the operands of its root swapped, and E re-associated at its root.
Rearranged(E) ==
    IF E.kind = "Atom" THEN {}
    ELSE {[kind |-> E.kind, l |-> E.r, r |-> E.l]}
         \cup (IF E.l.kind = E.kind
               THEN {[kind |-> E.kind, l |-> E.l.l,
                      r |-> [kind |-> E.kind, l |-> E.l.r, r |-> E.r]]}
               ELSE {})
         \cup (IF E.r.kind = E.kind
               THEN {[kind |-> E.kind,
                      l |-> [kind |-> E.kind, l |-> E.l, r |-> E.r.l],
                      r |-> E.r.r]}
               ELSE {})

HasNestedOr(E) == E.kind # "Atom" /\ (E.l.kind = "Or" \/ E.r.kind = "Or")

(***************************************************************************)
(* Properties.                                                             *)
(***************************************************************************)

\* C1: Or(l, r)::try_into_token(G) returns a token iff l is matched by G under
\* l's own rule or r is matched by G under r's own rule (a nested Or being
\* evaluated with OR semantics).
C1_OrIffEitherChildMatches ==
    (op = "try_into_token" /\ expr.kind = "Or")
        => (token.some <=> (SpecMatch(expr.l, ops) \/ SpecMatch(expr.r, ops)))

\* C2: for every E and G, E::try_into_token(G) returns a token iff
\* E::check_match(G) is true.
C2_IssueIffCheckMatch ==
    /\ op = "try_into_token" => (token.some <=> check_match(expr, ops))
    /\ op = "check_match" => (matched <=> try_into_token(expr, ops).some)

\* C3: And(l, r) is matched by G, and And::try_into_token(G) returns a token,
\* iff G is a superset of dispatch(l) \cup dispatch(r).
C3_AndIffSupersetOfUnion ==
    expr.kind = "And" =>
        /\ op = "try_into_token"
             => (token.some <=> (dispatch(expr.l) \cup dispatch(expr.r)) \subseteq ops)
        /\ op = "check_match"
             => (matched <=> (dispatch(expr.l) \cup dispatch(expr.r)) \subseteq ops)

C3_Witness ==
    /\ op = "try_into_token"
    /\ expr.kind = "And"
    /\ HasNestedOr(expr)
    /\ token.some
    /\ ops # Atoms

\* C4: a token returned by try_into_token is bound to E and was returned for a
\* granted set G with match(E, G); no token is produced for a G that does not
\* match E.
C4_TokenOnlyWhenMatched ==
    (op = "try_into_token" /\ token.some)
        => (token.val.bound = expr /\ SpecMatch(expr, ops))

C4_Witness ==
    /\ op = "try_into_token"
    /\ token.some
    /\ expr.kind = "Or"
    /\ HasNestedOr(expr)
    /\ ~(dispatch(expr) \subseteq ops)

\* C5: dispatch(E) is exactly the set of atoms that are leaves of E:
\* {a} for Atom(a), dispatch(l) \cup dispatch(r) for And(l, r) and Or(l, r),
\* whatever granted set is around.
C5_DispatchIsLeafSet ==
    /\ op = "dispatch" => dset = LeafSet(expr)
    /\ expr.kind = "Atom" => dispatch(expr) = {expr.a}
    /\ expr.kind # "Atom" =>
          /\ dispatch(And(expr.l, expr.r)) = dispatch(expr.l) \cup dispatch(expr.r)
          /\ dispatch(Or(expr.l, expr.r)) = dispatch(expr.l) \cup dispatch(expr.r)

C5_Witness ==
    /\ op = "dispatch"
    /\ expr.kind = "Or"
    /\ HasNestedOr(expr)
    /\ Cardinality(dset) = 2
    /\ ops = {}

\* C6: expressions built from the same atoms with the same composition kind
\* in a different operand order or nesting give the same match / issuance
\* result for every granted set.
C6_RearrangedAgree ==
    /\ op = "try_into_token" =>
          \A F \in Rearranged(expr) : try_into_token(F, ops).some <=> token.some
    /\ op = "check_match" =>
          \A F \in Rearranged(expr) : check_match(F, ops) <=> matched

\* C7: new_unchecked returns a token for E unconditionally, whatever granted
\* set the caller holds.
C7_UncheckedAlwaysToken ==
    op = "new_unchecked" => (token.some /\ token.val.bound = expr)

C7_Witness ==
    /\ op = "new_unchecked"
    /\ token.some
    /\ ops = {}
    /\ ~try_into_token(expr, ops).some

\* C8: with the empty granted set, try_into_token returns nothing for every
\* expression.
C8_EmptyGrantsNothing ==
    (op = "try_into_token" /\ ops = {}) => ~token.some

C8_Witness ==
    /\ op = "try_into_token"
    /\ ops = {}
    /\ expr.kind = "Or"
    /\ expr.r.kind = "And"
    /\ ~token.some

\* C9: with G = {CanRead, CanWrite}: And(CanRead, CanWrite) is issued,
\* And(CanRead, CanDelete) is not, Or(CanDelete, CanWrite) is issued, and
\* Or(CanDelete, And(CanRead, CanWrite)) is issued through its second branch
\* although its first branch alone fails.
C9_Scenarios ==
    (op = "try_into_token" /\ ops = {"CanRead", "CanWrite"}) =>
        /\ expr = And(Atom("CanRead"), Atom("CanWrite")) => token.some
        /\ expr = And(Atom("CanRead"), Atom("CanDelete")) => ~token.some
        /\ expr = Or(Atom("CanDelete"), Atom("CanWrite")) => token.some
        /\ expr = Or(Atom("CanDelete"), And(Atom("CanRead"), Atom("CanWrite")))
             => /\ token.some
                /\ ~try_into_token(expr.l, ops).some
                /\ try_into_token(expr.r, ops).some

C9_Witness ==
    /\ op = "try_into_token"
    /\ ops = {"CanRead", "CanWrite"}
    /\ expr = Or(Atom("CanDelete"), And(Atom("CanRead"), Atom("CanWrite")))
    /\ token.some

\* C10: issuance is monotone in the granted set: a token returned for G is
\* also returned for every G' that includes G, and a token is always returned
\* when G includes dispatch(E).
C10_IssuanceMonotone ==
    op = "try_into_token" =>
        /\ token.some =>
              \A G2 \in SUBSET Atoms : ops \subseteq G2 => try_into_token(expr, G2).some
        /\ dispatch(expr) \subseteq ops => token.some

C10_Witness ==
    /\ op = "try_into_token"
    /\ token.some
    /\ expr.kind = "Or"
    /\ Cardinality(ops) = 1
    /\ Cardinality(dispatch(expr)) = 3
====
